---- MODULE Spec2Model ----
(***************************************************************************)
(* Secret Santa CLI.                                                       *)
(*                                                                         *)
(* Spec    : one call of create_assignments (secret_santa/matcher.py) as a *)
(*           state machine, one action per step of the function.           *)
(* SpecCli : the store (secret_santa/storage.py) under the commands of     *)
(*           secret_santa/cli.py, one action per command.                  *)
(* SpecStored : one call of create_assignments on a store that holds       *)
(*           clusters and an earlier batch.                                *)
(* SpecAssign : the commands assign, send and config on such a store.      *)
(* SpecStore : the participant and cluster operations of storage.py, by    *)
(*           name.                                                         *)
(*                                                                         *)
(* Participant identifiers are the integers 1..N, which stand for the      *)
(* uuid4 values Uuids[1..N]; a participant's cluster_id is NoCluster       *)
(* (None) or a cluster identifier in 1..NumClusters.  The error kinds of   *)
(* the one exception class MatcherError are told apart by the raise        *)
(* statement that builds them.                                             *)
(***************************************************************************)
EXTENDS Integers, Sequences, FiniteSets, TLC

\* ------------------------------------------------------------------ bounds
MaxParticipants == 4
NumClusters == 2
MaxAttempts == 2
MaxStored == 3
MaxClusters == 1
MaxIds == 3
MaxMembers == 2

\* cluster_id: Optional[UUID] = None
NoCluster == 0

VARIABLES
    participants,    \* storage.list_participants(): the roster, in storage order
    separate_kids,   \* argument of create_assignments
    max_attempts,    \* argument of create_assignments
    pc,              \* position in create_assignments
    attempt,         \* number of _try_assign calls started by the for loop
    givers,          \* _try_assign: shuffled copy of participants
    receivers,       \* _try_assign: shuffled copy of participants, as the set of its elements
    gi,              \* _try_assign: index in givers of the giver of the next step
    used_receivers,  \* _try_assign: set of receiver ids already given
    assignments,     \* _try_assign: the list built so far
    result,          \* create_assignments: the value of the last _try_assign call
    outcome,         \* how create_assignments ended: "none" while running
    returned,        \* the list create_assignments returned
    reported,        \* the attempt count in the message of the last MatcherError
    validated,       \* history: the cluster validation has been entered
    completed,       \* history: <<attempt index, list>> of every attempt that assigned all givers
    clusters,        \* storage: data.clusters
    data_assignments, \* storage: data.assignments
    config,          \* storage: data.config, as what is set in it
    last             \* the command that is running, and how it ends ("none": at the prompt)

engine_vars == <<separate_kids, max_attempts, pc, attempt, givers, receivers, gi,
                 used_receivers, assignments, result, outcome, returned, reported,
                 validated, completed>>

store_vars == <<clusters, data_assignments, config, last>>

vars == <<participants, engine_vars, store_vars>>

\* ------------------------------------------------------------------ data
\* parent_email: Optional[EmailStr] = None
NoEmail == "None"

\* What santa add was given for the participant that got the identifier id: names and
\* emails differ from participant to participant, and every second one has a parent
\* email.
Names == <<"Alice", "Bob", "Carol", "Dave", "Erin", "Frank">>
Emails == <<"alice@test.com", "bob@test.com", "carol@test.com", "dave@test.com",
            "erin@test.com", "frank@test.com">>
ParentEmails == <<NoEmail, "mum.bob@test.com", NoEmail, "mum.dave@test.com",
                  NoEmail, "mum.frank@test.com">>

\* models.Participant
Participant(id, cluster_id, is_kid) ==
    [id |-> id, name |-> Names[id], email |-> Emails[id], parent_email |-> ParentEmails[id],
     cluster_id |-> cluster_id, is_kid |-> is_kid]

\* The rosters of n participants.
Roster(n) ==
    { [i \in 1..n |-> Participant(i, c[i], k[i])] :
        c \in [1..n -> 0..NumClusters], k \in [1..n -> BOOLEAN] }

\* The engine reads the roster through shuffled copies and through counts only, so
\* the rosters are taken up to their storage order: by cluster, adults before kids.
Ordered(ps) ==
    \A i \in 1..(Len(ps) - 1) :
        \/ ps[i].cluster_id < ps[i + 1].cluster_id
        \/ ps[i].cluster_id = ps[i + 1].cluster_id /\ (ps[i].is_kid => ps[i + 1].is_kid)

Rosters == UNION { { ps \in Roster(n) : Ordered(ps) } : n \in 0..MaxParticipants }

\* The restricted-class flag of a participant.
IsKid(p) == p.is_kid

Range(s) == { s[i] : i \in DOMAIN s }

\* random.shuffle(xs): any ordering of the elements of xs.
Shuffles(xs) ==
    { [i \in 1..Len(xs) |-> xs[f[i]]] : f \in Permutations(1..Len(xs)) }

\* cluster_map: dict id -> cluster_id, built by the loop over participants.
ClusterMapOf(ps) ==
    [x \in { ps[i].id : i \in DOMAIN ps } |->
        (ps[CHOOSE i \in DOMAIN ps : ps[i].id = x]).cluster_id]

\* kid_map: dict id -> is_kid.
KidMapOf(ps) ==
    [x \in { ps[i].id : i \in DOMAIN ps } |->
        IsKid(ps[CHOOSE i \in DOMAIN ps : ps[i].id = x])]

\* dict.get(key) with default None / False.
MapGet(m, key, default) == IF key \in DOMAIN m THEN m[key] ELSE default

\* ------------------------------------------------------------------ hashlib.sha256
\* A 32-bit word is <<hi, lo>>: its upper and its lower 16 bits, as numbers.
Hi(w) == w[1]
Lo(w) == w[2]
Word(hi, lo) == <<hi, lo>>

\* Bit by bit on three numbers of k bits: exclusive or; choice (the bit of y where
\* x has a 1, the bit of z where it has a 0); majority.
RECURSIVE XorBits(_, _, _, _)
XorBits(a, b, c, k) ==
    IF k = 0 THEN 0
    ELSE (((a % 2) + (b % 2) + (c % 2)) % 2)
            + 2 * XorBits(a \div 2, b \div 2, c \div 2, k - 1)

RECURSIVE ChBits(_, _, _, _)
ChBits(x, y, z, k) ==
    IF k = 0 THEN 0
    ELSE (IF x % 2 = 1 THEN y % 2 ELSE z % 2)
            + 2 * ChBits(x \div 2, y \div 2, z \div 2, k - 1)

RECURSIVE MajBits(_, _, _, _)
MajBits(x, y, z, k) ==
    IF k = 0 THEN 0
    ELSE (((x % 2) + (y % 2) + (z % 2)) \div 2)
            + 2 * MajBits(x \div 2, y \div 2, z \div 2, k - 1)

Xor3(a, b, c) == <<XorBits(a[1], b[1], c[1], 16), XorBits(a[2], b[2], c[2], 16)>>

\* Rotation to the right by n bits, 0 <= n < 32.
Rotr(a, n) ==
    LET hi == IF n >= 16 THEN a[2] ELSE a[1]
        lo == IF n >= 16 THEN a[1] ELSE a[2]
        m == n % 16
    IN  <<(hi \div (2 ^ m)) + (lo % (2 ^ m)) * (2 ^ (16 - m)),
          (lo \div (2 ^ m)) + (hi % (2 ^ m)) * (2 ^ (16 - m))>>

\* Shift to the right by n bits, 0 <= n < 16.
Shr(a, n) ==
    <<a[1] \div (2 ^ n), (a[2] \div (2 ^ n)) + (a[1] % (2 ^ n)) * (2 ^ (16 - n))>>

RECURSIVE SumHi(_, _)
SumHi(ws, k) == IF k = 0 THEN 0 ELSE SumHi(ws, k - 1) + Hi(ws[k])

RECURSIVE SumLo(_, _)
SumLo(ws, k) == IF k = 0 THEN 0 ELSE SumLo(ws, k - 1) + Lo(ws[k])

\* The sum of the words of ws, modulo 2^32.
Add(ws) ==
    LET lo == SumLo(ws, Len(ws))
        hi == SumHi(ws, Len(ws)) + (lo \div 65536)
    IN  Word(hi % 65536, lo % 65536)

\* The round constants and the initial hash value, as <<upper half, lower half>>.
ShaK == <<
    <<17034, 12184>>, <<28983, 17553>>, <<46528, 64463>>, <<59829, 56229>>,
    <<14678, 49755>>, <<23025, 4593>>, <<37439, 33444>>, <<43804, 24277>>,
    <<55303, 43672>>, <<4739, 23297>>, <<9265, 34238>>, <<21772, 32195>>,
    <<29374, 23924>>, <<32990, 45566>>, <<39900, 1703>>, <<49563, 61812>>,
    <<58523, 27073>>, <<61374, 18310>>, <<4033, 40390>>, <<9228, 41420>>,
    <<11753, 11375>>, <<19060, 33962>>, <<23728, 43484>>, <<30457, 35034>>,
    <<38974, 20818>>, <<43057, 50797>>, <<45059, 10184>>, <<48985, 32711>>,
    <<50912, 3059>>, <<54695, 37191>>, <<1738, 25425>>, <<5161, 10599>>,
    <<10167, 2693>>, <<11803, 8504>>, <<19756, 28156>>, <<21304, 3347>>,
    <<25866, 29524>>, <<30314, 2747>>, <<33218, 51502>>, <<37490, 11397>>,
    <<41663, 59553>>, <<43034, 26187>>, <<49739, 35696>>, <<51052, 20899>>,
    <<53650, 59417>>, <<54937, 1572>>, <<62478, 13701>>, <<4202, 41072>>,
    <<6564, 49430>>, <<7735, 27656>>, <<10056, 30540>>, <<13488, 48309>>,
    <<14620, 3251>>, <<20184, 43594>>, <<23452, 51791>>, <<26670, 28659>>,
    <<29839, 33518>>, <<30885, 25455>>, <<33992, 30740>>, <<36039, 520>>,
    <<37054, 65530>>, <<42064, 27883>>, <<48889, 41975>>, <<50801, 30962>>
>>

ShaH0 == <<
    <<27145, 58983>>, <<47975, 44677>>, <<15470, 62322>>, <<42319, 62778>>,
    <<20750, 21119>>, <<39685, 26764>>, <<8067, 55723>>, <<23520, 52505>>
>>

\* Ch(x, y, z) = (x AND y) XOR (NOT x AND z); Maj(x, y, z) = (x AND y) XOR (x AND z)
\* XOR (y AND z).
Ch(x, y, z) == <<ChBits(x[1], y[1], z[1], 16), ChBits(x[2], y[2], z[2], 16)>>
Maj(x, y, z) == <<MajBits(x[1], y[1], z[1], 16), MajBits(x[2], y[2], z[2], 16)>>
BigSigma0(x) == Xor3(Rotr(x, 2), Rotr(x, 13), Rotr(x, 22))
BigSigma1(x) == Xor3(Rotr(x, 6), Rotr(x, 11), Rotr(x, 25))
SmallSigma0(x) == Xor3(Rotr(x, 7), Rotr(x, 18), Shr(x, 3))
SmallSigma1(x) == Xor3(Rotr(x, 17), Rotr(x, 19), Shr(x, 10))

\* The message with its padding: 0x80, zeros, and the bit length in 8 bytes.
ShaPad(msg) ==
    LET n == Len(msg)
        zeros == (55 - n) % 64
        bitlen == 8 * n
    IN  msg \o <<128>> \o [i \in 1..zeros |-> 0]
            \o <<0, 0, 0, 0, 0, 0, (bitlen \div 256) % 256, bitlen % 256>>

\* The 16 words of block k of the padded message.
BlockWords(bytes, k) ==
    [t \in 1..16 |->
        LET o == 64 * (k - 1) + 4 * (t - 1)
        IN  Word(256 * bytes[o + 1] + bytes[o + 2], 256 * bytes[o + 3] + bytes[o + 4])]

\* The message schedule extended by the words lo..hi.  The range is halved, and the
\* first half is evaluated (its length taken) before the second, to keep the
\* evaluation shallow.
RECURSIVE Schedule(_, _, _)
Schedule(w, lo, hi) ==
    IF lo > hi THEN w
    ELSE IF lo = hi
    THEN Append(w, Add(<<SmallSigma1(w[lo - 2]), w[lo - 7],
                         SmallSigma0(w[lo - 15]), w[lo - 16]>>))
    ELSE LET mid == (lo + hi) \div 2
             first == Schedule(w, lo, mid)
         IN  IF Len(first) = mid THEN Schedule(first, mid + 1, hi) ELSE <<>>

\* Round t on the working variables s = <<a, b, c, d, e, f, g, h>>.
Round(s, w, t) ==
    LET t1 == Add(<<s[8], BigSigma1(s[5]), Ch(s[5], s[6], s[7]),
                    Word(ShaK[t][1], ShaK[t][2]), w[t]>>)
        t2 == Add(<<BigSigma0(s[1]), Maj(s[1], s[2], s[3])>>)
    IN  <<Add(<<t1, t2>>), s[1], s[2], s[3], Add(<<s[4], t1>>), s[5], s[6], s[7]>>

\* The rounds lo..hi.
RECURSIVE Rounds(_, _, _, _)
Rounds(s, w, lo, hi) ==
    IF lo = hi THEN Round(s, w, lo)
    ELSE LET mid == (lo + hi) \div 2
             first == Rounds(s, w, lo, mid)
         IN  IF Len(first) = 8 THEN Rounds(first, w, mid + 1, hi) ELSE <<>>

\* The hash value after the blocks k.. of the padded message.
RECURSIVE Blocks(_, _, _)
Blocks(h, bytes, k) ==
    IF 64 * k > Len(bytes) THEN h
    ELSE LET s == Rounds(h, Schedule(BlockWords(bytes, k), 17, 64), 1, 64)
         IN  Blocks([i \in 1..8 |-> Add(<<h[i], s[i]>>)], bytes, k + 1)

\* sha256(msg): the 8 words of the digest.
Sha256(msg) ==
    Blocks([i \in 1..8 |-> Word(ShaH0[i][1], ShaH0[i][2])], ShaPad(msg), 1)

\* sha256(msg).digest()
DigestOf(msg) == Sha256(msg)

\* ------------------------------------------------------------------ identifiers
\* The uuid4 values of the participants 1, 2, ..., as their 32 hexadecimal digits.
Uuids == <<
    <<10, 10, 5, 9, 7, 6, 14, 2, 14, 0, 2, 6, 4, 8, 8, 10, 9, 0, 13, 3, 2, 1, 5, 10, 9, 7, 10, 3, 3, 14, 4, 4>>,
    <<11, 13, 4, 9, 2, 1, 15, 3, 1, 12, 10, 6, 4, 13, 4, 15, 11, 14, 2, 4, 8, 15, 0, 8, 6, 0, 9, 0, 1, 13, 3, 6>>,
    <<10, 14, 5, 13, 4, 2, 12, 6, 11, 9, 6, 3, 4, 8, 8, 2, 10, 1, 12, 7, 6, 6, 2, 11, 0, 3, 4, 4, 6, 4, 9, 7>>,
    <<2, 3, 7, 8, 9, 3, 13, 11, 15, 0, 14, 7, 4, 1, 15, 13, 11, 10, 5, 7, 2, 6, 9, 11, 2, 14, 2, 12, 6, 8, 9, 7>>,
    <<1, 0, 11, 7, 10, 15, 4, 12, 3, 12, 8, 10, 4, 9, 2, 13, 10, 5, 4, 7, 4, 8, 8, 4, 2, 2, 3, 6, 13, 7, 15, 3>>,
    <<5, 13, 2, 1, 4, 15, 8, 7, 11, 13, 12, 10, 4, 8, 6, 7, 9, 0, 1, 14, 11, 8, 3, 5, 8, 0, 11, 11, 10, 7, 15, 14>>
>>

HexChars == <<"0", "1", "2", "3", "4", "5", "6", "7", "8", "9", "a", "b", "c", "d", "e", "f">>

\* str(uuid): 8-4-4-4-12 lower-case hexadecimal digits.
UuidStr(id) ==
    LET d == Uuids[id]
        h(i, j) == [k \in 1..(j - i + 1) |-> HexChars[d[i + k - 1] + 1]]
    IN  h(1, 8) \o <<"-">> \o h(9, 12) \o <<"-">> \o h(13, 16) \o <<"-">> \o h(17, 20)
            \o <<"-">> \o h(21, 32)

\* str.encode(): the byte of each (ASCII) character.
Ord(c) ==
    CASE c = "-" -> 45
      [] c = ":" -> 58
      [] c \in {"0", "1", "2", "3", "4", "5", "6", "7", "8", "9"} ->
            48 + (CHOOSE n \in 0..9 : HexChars[n + 1] = c)
      [] OTHER -> 97 + (CHOOSE n \in 0..5 : HexChars[n + 11] = c)

Encode(s) == [i \in 1..Len(s) |-> Ord(s[i])]

\* hexdigest()[:4]: the first four hexadecimal digits of the digest, lower case.
HexPrefix(digest) ==
    LET hi == digest[1][1]
    IN  [i \in 1..4 |-> HexChars[((hi \div (16 ^ (4 - i))) % 16) + 1]]

\* str.upper() on one character.
UpperChar(c) ==
    CASE c = "a" -> "A" [] c = "b" -> "B" [] c = "c" -> "C"
      [] c = "d" -> "D" [] c = "e" -> "E" [] c = "f" -> "F"
      [] OTHER -> c

Upper(s) == [i \in 1..Len(s) |-> UpperChar(s[i])]

\* Mutant of Combined: the two identifiers are put in sorted order.
Combined_sorted(giver_id, receiver_id) ==
    IF giver_id <= receiver_id
    THEN UuidStr(giver_id) \o <<":">> \o UuidStr(receiver_id)
    ELSE UuidStr(receiver_id) \o <<":">> \o UuidStr(giver_id)

\* combined = f"{giver_id}:{receiver_id}"
Combined(giver_id, receiver_id) == UuidStr(giver_id) \o <<":">> \o UuidStr(receiver_id)

\* The identifiers that participants get.
CodeIds == 1..(IF MaxIds > MaxParticipants THEN MaxIds ELSE MaxParticipants)

\* generate_verification_code(giver_id, receiver_id), statement by statement: the
\* digest of combined.encode(), and hash_digest[:4].upper().
CodeSteps(giver_id, receiver_id) ==
    LET combined == Combined(giver_id, receiver_id) \o <<>>
        digest == DigestOf(Encode(combined))
    IN  [combined |-> combined, digest |-> digest, code |-> Upper(HexPrefix(digest)) \o <<>>]

\* CodeSteps of every ordered pair of identifiers, computed once.
PairTable ==
    [g \in CodeIds |-> [r \in CodeIds |-> CodeSteps(g, r)] \o <<>>] \o <<>>

\* Mutant of generate_verification_code: the code also depends on the roster.
generate_verification_code_by_roster(giver_id, receiver_id) ==
    IF Len(participants) % 2 = 0
    THEN PairTable[giver_id][receiver_id].code
    ELSE PairTable[receiver_id][giver_id].code

\* generate_verification_code(giver_id, receiver_id)
generate_verification_code(giver_id, receiver_id) == PairTable[giver_id][receiver_id].code

\* ------------------------------------------------------------------ matcher.py
\* Mutant of _same_cluster: the cluster test is dropped.
same_cluster_never(id1, id2, cluster_map) == FALSE

\* Mutant of _same_cluster: None is compared like a cluster id, so two participants
\* without a cluster count as of the same cluster.
same_cluster_with_none(id1, id2, cluster_map) ==
    MapGet(cluster_map, id1, NoCluster) = MapGet(cluster_map, id2, NoCluster)

\* _same_cluster(id1, id2, cluster_map)
_same_cluster(id1, id2, cluster_map) ==
    LET c1 == MapGet(cluster_map, id1, NoCluster)
        c2 == MapGet(cluster_map, id2, NoCluster)
    IN  IF c1 = NoCluster \/ c2 = NoCluster THEN FALSE ELSE c1 = c2

\* Mutant of _validate_cluster_sizes: a cluster of exactly half of the group is refused
\* too.
validate_cluster_sizes_at_half(group) ==
    IF Len(group) < 2
    THEN FALSE
    ELSE \E cid \in { group[i].cluster_id : i \in DOMAIN group } :
            /\ cid # NoCluster
            /\ 2 * Cardinality({ i \in DOMAIN group : group[i].cluster_id = cid })
                 >= Len(group)

\* _validate_cluster_sizes(group, cluster_map, group_name): TRUE iff it raises.
\* count > len(group) / 2 is written 2 * count > len(group).
_validate_cluster_sizes(group) ==
    IF Len(group) < 2
    THEN FALSE
    ELSE \E cid \in { group[i].cluster_id : i \in DOMAIN group } :
            /\ cid # NoCluster
            /\ 2 * Cardinality({ i \in DOMAIN group : group[i].cluster_id = cid })
                 > Len(group)

IsAdult(p) == ~IsKid(p)

\* kids = [p for p in participants if p.is_kid]
kids(ps) == SelectSeq(ps, IsKid)

\* adults = [p for p in participants if not p.is_kid]
adults(ps) == SelectSeq(ps, IsAdult)

\* Mutant of ValidationError: the cluster sizes are not validated.
ValidationError_no_sizes(ps, sep) ==
    IF sep /\ Len(kids(ps)) = 1 THEN "SinglePartitionMember" ELSE "none"

\* Mutant of ValidationError: an empty kid class is refused like a class of one.
ValidationError_empty_class(ps, sep) ==
    IF sep
    THEN IF Len(kids(ps)) <= 1 THEN "SinglePartitionMember"
         ELSE IF _validate_cluster_sizes(kids(ps)) THEN "ClusterTooLarge"
         ELSE IF _validate_cluster_sizes(adults(ps)) THEN "ClusterTooLarge"
         ELSE "none"
    ELSE IF _validate_cluster_sizes(ps) THEN "ClusterTooLarge" ELSE "none"

\* The validation block of create_assignments: the error it raises, or "none".
ValidationError(ps, sep) ==
    IF sep
    THEN IF Len(kids(ps)) = 1 THEN "SinglePartitionMember"
         ELSE IF _validate_cluster_sizes(kids(ps)) THEN "ClusterTooLarge"
         ELSE IF _validate_cluster_sizes(adults(ps)) THEN "ClusterTooLarge"
         ELSE "none"
    ELSE IF _validate_cluster_sizes(ps) THEN "ClusterTooLarge" ELSE "none"

\* Mutant of TooFew: off by one.
TooFew_one(ps) == Len(ps) < 1

\* len(participants) < 2
TooFew(ps) == Len(ps) < 2

\* Mutant of LoopContinues: one iteration too few.
LoopContinues_short(n, max) == n < max - 1

\* Mutant of LoopContinues: one iteration too many.
LoopContinues_inclusive(n, max) == n <= max

\* for attempt in range(max_attempts): another iteration is due.
LoopContinues(n, max) == n < max

\* Mutant of valid_receivers: a receiver may be used twice.
valid_receivers_reuse(giver, recvs, used, cluster_map, kid_map, sep) ==
    LET giver_is_kid == MapGet(kid_map, giver.id, FALSE)
    IN  { r \in recvs :
            /\ r.id # giver.id
            /\ ~_same_cluster(giver.id, r.id, cluster_map)
            /\ (~sep \/ MapGet(kid_map, r.id, FALSE) = giver_is_kid) }

\* Mutant of valid_receivers: the partition filter is dropped.
valid_receivers_any_class(giver, recvs, used, cluster_map, kid_map, sep) ==
    { r \in recvs :
        /\ r.id \notin used
        /\ r.id # giver.id
        /\ ~_same_cluster(giver.id, r.id, cluster_map) }

\* Mutant of valid_receivers: a giver may receive from themselves.
valid_receivers_self(giver, recvs, used, cluster_map, kid_map, sep) ==
    LET giver_is_kid == MapGet(kid_map, giver.id, FALSE)
    IN  { r \in recvs :
            /\ r.id \notin used
            /\ ~_same_cluster(giver.id, r.id, cluster_map)
            /\ (~sep \/ MapGet(kid_map, r.id, FALSE) = giver_is_kid) }

\* Mutant of valid_receivers: the partition filter is applied whatever separate_kids is.
valid_receivers_same_class(giver, recvs, used, cluster_map, kid_map, sep) ==
    LET giver_is_kid == MapGet(kid_map, giver.id, FALSE)
    IN  { r \in recvs :
            /\ r.id \notin used
            /\ r.id # giver.id
            /\ ~_same_cluster(giver.id, r.id, cluster_map)
            /\ MapGet(kid_map, r.id, FALSE) = giver_is_kid }

\* valid_receivers of _try_assign.  The order of receivers only orders this list,
\* and random.choice draws any element of it: the list is kept as a set.
valid_receivers(giver, recvs, used, cluster_map, kid_map, sep) ==
    LET giver_is_kid == MapGet(kid_map, giver.id, FALSE)
    IN  { r \in recvs :
            /\ r.id \notin used
            /\ r.id # giver.id
            /\ ~_same_cluster(giver.id, r.id, cluster_map)
            /\ (~sep \/ MapGet(kid_map, r.id, FALSE) = giver_is_kid) }

\* Mutant of NewAssignment: parent_email and is_kid are taken from the receiver.
NewAssignment_of_receiver(giver, receiver) ==
    [giver_id |-> giver.id, receiver_id |-> receiver.id,
     giver_name |-> giver.name, receiver_name |-> receiver.name,
     giver_email |-> giver.email, receiver_email |-> receiver.email,
     parent_email |-> receiver.parent_email,
     verification_code |-> generate_verification_code(giver.id, receiver.id),
     is_kid |-> IsKid(receiver), email_sent |-> FALSE]

\* Assignment(giver_id=giver.id, ..., is_kid=giver.is_kid); email_sent defaults to False.
NewAssignment(giver, receiver) ==
    [giver_id |-> giver.id, receiver_id |-> receiver.id,
     giver_name |-> giver.name, receiver_name |-> receiver.name,
     giver_email |-> giver.email, receiver_email |-> receiver.email,
     parent_email |-> giver.parent_email,
     verification_code |-> generate_verification_code(giver.id, receiver.id),
     is_kid |-> IsKid(giver), email_sent |-> FALSE]

\* The value of _try_assign: None, or a list.
None == [none |-> TRUE, list |-> <<>>]
Some(list) == [none |-> FALSE, list |-> list]

\* Mutant of IsResult: a complete attempt is not accepted.
IsResult_never(r) == FALSE

\* if result is not None
IsResult(r) == ~r.none

\* ------------------------------------------------------------------ storage.py
\* over_sent is history: the command started over a stored batch of which an email
\* had been sent.  results is the list that send_all_assignments returned to the
\* command.
AtPrompt == [cmd |-> "none", outcome |-> "none", over_sent |-> FALSE, results |-> <<>>]

\* SecretSantaData(): the store of a first run.
EmptyStore ==
    /\ clusters = <<>>
    /\ data_assignments = <<>>
    /\ config = [brevo_api_key |-> FALSE, sender_email |-> FALSE]
    /\ last = AtPrompt

\* Storage.mark_email_sent(giver_id): the first assignment of that giver is marked.
mark_email_sent(batch, giver_id) ==
    IF \E i \in DOMAIN batch : batch[i].giver_id = giver_id
    THEN LET k == CHOOSE i \in DOMAIN batch :
                     /\ batch[i].giver_id = giver_id
                     /\ \A j \in 1..(i - 1) : batch[j].giver_id # giver_id
         IN  [batch EXCEPT ![k].email_sent = TRUE]
    ELSE batch

\* ------------------------------------------------------------------ create_assignments
EngineIdle ==
    /\ pc = "start"
    /\ attempt = 0
    /\ givers = <<>>
    /\ receivers = {}
    /\ gi = 1
    /\ used_receivers = {}
    /\ assignments = <<>>
    /\ result = None
    /\ outcome = "none"
    /\ returned = <<>>
    /\ reported = 0
    /\ validated = FALSE
    /\ completed = <<>>

Init ==
    /\ participants \in Rosters
    /\ separate_kids \in BOOLEAN
    /\ max_attempts \in 0..MaxAttempts
    /\ EngineIdle
    /\ EmptyStore

Raise(kind) ==
    /\ outcome' = kind
    /\ pc' = "done"

\* participants = storage.list_participants(); the size check; the two maps.
Enter ==
    /\ pc = "start"
    /\ IF TooFew(participants) THEN Raise("TooFewParticipants")
       ELSE pc' = "validate" /\ outcome' = outcome
    /\ UNCHANGED <<store_vars, participants, separate_kids, max_attempts, attempt, givers, receivers,
                   gi, used_receivers, assignments, result, returned, reported, validated, completed>>

\* if separate_kids: ... else: _validate_cluster_sizes(participants, ...)
Validate ==
    /\ pc = "validate"
    /\ validated' = TRUE
    /\ LET e == ValidationError(participants, separate_kids)
       IN  IF e # "none" THEN Raise(e) ELSE pc' = "loop" /\ outcome' = outcome
    /\ UNCHANGED <<store_vars, participants, separate_kids, max_attempts, attempt, givers, receivers,
                   gi, used_receivers, assignments, result, returned, reported, completed>>

\* Mutant of shuffled_list: the list is shuffled in place.
shuffled_list_in_place(ps, shuffled) == shuffled

\* givers = participants.copy(); random.shuffle(givers): the list that
\* storage.list_participants() returned, after the shuffle of its copy.
shuffled_list(ps, shuffled) == ps

\* One iteration of the for loop starts: _try_assign copies and shuffles.
StartAttempt ==
    /\ pc = "loop"
    /\ LoopContinues(attempt, max_attempts)
    /\ attempt' = attempt + 1
    /\ givers' \in Shuffles(participants)
    /\ participants' = shuffled_list(participants, givers')
    /\ receivers' = Range(participants)
    /\ assignments' = <<>>
    /\ used_receivers' = {}
    /\ gi' = 1
    /\ pc' = "try"
    /\ UNCHANGED <<store_vars, separate_kids, max_attempts, result, outcome, returned,
                   reported, validated, completed>>

\* The for loop is over: raise MatcherError("Could not find valid assignments ...").
Exhausted ==
    /\ pc = "loop"
    /\ ~LoopContinues(attempt, max_attempts)
    /\ Raise("SearchExhausted")
    /\ reported' = max_attempts
    /\ UNCHANGED <<store_vars, participants, separate_kids, max_attempts, attempt, givers, receivers,
                   gi, used_receivers, assignments, result, returned, validated, completed>>

\* The locals of _try_assign go out of scope when it returns.
LeaveTryAssign(r) ==
    /\ result' = r
    /\ givers' = <<>>
    /\ receivers' = {}
    /\ gi' = 1
    /\ used_receivers' = {}
    /\ assignments' = <<>>
    /\ pc' = "check"

\* One iteration of "for giver in givers".
GiverStep ==
    /\ pc = "try"
    /\ gi <= Len(givers)
    /\ LET giver == givers[gi]
           valid == valid_receivers(giver, receivers, used_receivers,
                                    ClusterMapOf(participants), KidMapOf(participants),
                                    separate_kids)
       IN  IF valid = {}
           THEN LeaveTryAssign(None)
           ELSE \E receiver \in valid :
                  /\ used_receivers' = used_receivers \cup {receiver.id}
                  /\ assignments' = Append(assignments, NewAssignment(giver, receiver))
                  /\ gi' = gi + 1
                  /\ UNCHANGED <<givers, receivers, result, pc>>
    /\ UNCHANGED <<store_vars, participants, separate_kids, max_attempts, attempt, outcome, returned,
                   reported, validated, completed>>

\* return assignments, after the last giver.
TryReturn ==
    /\ pc = "try"
    /\ gi > Len(givers)
    /\ completed' = Append(completed, <<attempt, assignments>>)
    /\ LeaveTryAssign(Some(assignments))
    /\ UNCHANGED <<store_vars, participants, separate_kids, max_attempts, attempt, outcome, returned,
                   reported, validated>>

\* if result is not None: return result
CheckResult ==
    /\ pc = "check"
    /\ IF IsResult(result)
       THEN /\ returned' = result.list
            /\ outcome' = "ok"
            /\ pc' = "done"
       ELSE /\ pc' = "loop"
            /\ UNCHANGED <<returned, outcome>>
    /\ result' = None
    /\ UNCHANGED <<store_vars, participants, separate_kids, max_attempts, attempt, givers, receivers,
                   gi, used_receivers, assignments, reported, validated, completed>>

Next ==
    \/ Enter
    \/ Validate
    \/ StartAttempt
    \/ Exhausted
    \/ GiverStep
    \/ TryReturn
    \/ CheckResult

Spec == Init /\ [][Next]_vars

\* The function is sequential code: while it has a next statement, it runs it.
FairSpec == Spec /\ WF_vars(Next)

\* ------------------------------------------------------------------ create_assignments over a filled store
\* member_ids of cluster c: the participants that were added to it, in roster order.
MembersOf(ps, c) ==
    LET InC(p) == p.cluster_id = c
        sel == SelectSeq(ps, InC)
    IN  [i \in DOMAIN sel |-> sel[i].id]

\* data.clusters for the roster ps: the clusters that cluster create and cluster add
\* have built.
ClustersOf(ps) == [c \in 1..NumClusters |-> [id |-> c, member_ids |-> MembersOf(ps, c)]]

\* Two participants that have been removed from the roster.
Former == <<Participant(1, NoCluster, FALSE), Participant(2, NoCluster, FALSE)>>

\* data.assignments as earlier assign and send commands left it, for the roster ps:
\* nothing, or the batch of a roster of two (the first two participants of ps, as far
\* as there are, and removed ones) of which no, one or every email was sent.
StoredBatches(ps) ==
    LET a == IF Len(ps) >= 1 THEN ps[1] ELSE Former[1]
        b == IF Len(ps) >= 2 THEN ps[2] ELSE Former[2]
        batch == <<NewAssignment(a, b), NewAssignment(b, a)>>
    IN  {<<>>, batch,
         mark_email_sent(batch, 1),
         mark_email_sent(mark_email_sent(batch, 1), 2)}

\* create_assignments is called on a store that holds clusters and a batch.
InitStored ==
    /\ participants \in { ps \in Rosters : Len(ps) <= MaxStored }
    /\ separate_kids \in BOOLEAN
    /\ max_attempts \in 0..MaxAttempts
    /\ EngineIdle
    /\ clusters = ClustersOf(participants)
    /\ data_assignments \in StoredBatches(participants)
    /\ config = [brevo_api_key |-> FALSE, sender_email |-> FALSE]
    /\ last = AtPrompt

SpecStored == InitStored /\ [][Next]_vars

\* ------------------------------------------------------------------ create_assignments, as a relation
\* The values _try_assign can return from giver index i on, for the giver order gs.
RECURSIVE TryAssignFrom(_, _, _, _, _, _)
TryAssignFrom(ps, sep, gs, i, used, acc) ==
    IF i > Len(gs)
    THEN {Some(acc)}
    ELSE LET valid == valid_receivers(gs[i], Range(ps), used, ClusterMapOf(ps),
                                      KidMapOf(ps), sep)
         IN  IF valid = {}
             THEN {None}
             ELSE UNION { TryAssignFrom(ps, sep, gs, i + 1, used \cup {r.id},
                                        Append(acc, NewAssignment(gs[i], r))) :
                          r \in valid }

\* The values one call of _try_assign can return.
_try_assign(ps, sep) ==
    UNION { TryAssignFrom(ps, sep, gs, 1, {}, <<>>) : gs \in Shuffles(ps) }

Failure(kind) == [kind |-> kind, list |-> <<>>]
Success(list) == [kind |-> "ok", list |-> list]

\* The ways create_assignments(storage, max_attempts, separate_kids) can end: the
\* list of an attempt that completes, if the loop runs at all, and the exhaustion of
\* the loop, if it does not run or an attempt can dead-end.
create_assignments(ps, max, sep) ==
    IF TooFew(ps) THEN {Failure("TooFewParticipants")}
    ELSE IF ValidationError(ps, sep) # "none" THEN {Failure(ValidationError(ps, sep))}
    ELSE LET results == _try_assign(ps, sep)
         IN  { Success(r.list) : r \in { x \in results : IsResult(x) /\ LoopContinues(0, max) } }
             \cup (IF None \in results \/ ~LoopContinues(0, max)
                   THEN {Failure("SearchExhausted")} ELSE {})

\* Mutant of list_participants: the givers of a sent stored assignment are left out.
list_participants_unsent(storage) ==
    LET Unsent(p) ==
            ~\E i \in DOMAIN storage.assignments :
                storage.assignments[i].giver_id = p.id /\ storage.assignments[i].email_sent
    IN  SelectSeq(storage.participants, Unsent)

\* Storage.list_participants()
list_participants(storage) == storage.participants

\* create_assignments(storage, max_attempts, separate_kids) on a store: what it reads
\* of the store is storage.list_participants().
create_assignments_on(storage, max, sep) ==
    create_assignments(list_participants(storage), max, sep)

\* ------------------------------------------------------------------ cli.py on storage.py
\* max_attempts: int = 1000
DefaultMaxAttempts == 1000

\* uuid4(): an identifier the store does not hold.
FreshId(used) == CHOOSE x \in 1..(Cardinality(used) + 1) : x \notin used

StoredIds ==
    { participants[i].id : i \in DOMAIN participants }
    \cup { data_assignments[i].giver_id : i \in DOMAIN data_assignments }
    \cup { data_assignments[i].receiver_id : i \in DOMAIN data_assignments }

\* A command is one run of the program: it starts at the prompt, runs its handler
\* and exits.
Done(cmd, how) ==
    /\ last = AtPrompt
    /\ last' = [cmd |-> cmd, outcome |-> how,
                over_sent |-> \E i \in DOMAIN data_assignments : data_assignments[i].email_sent,
                results |-> <<>>]

\* The process of the command ends.
Exit ==
    /\ last # AtPrompt
    /\ last' = AtPrompt
    /\ UNCHANGED <<engine_vars, participants, clusters, data_assignments, config>>

\* santa add NAME EMAIL [--kid], with an email no participant has:
\* Participant(...) and Storage.add_participant.
AddParticipant(kid) ==
    /\ Len(participants) < MaxStored
    /\ FreshId(StoredIds) <= MaxIds
    /\ participants' = Append(participants, Participant(FreshId(StoredIds), NoCluster, kid))
    /\ Done("add", "ok")
    /\ UNCHANGED <<engine_vars, clusters, data_assignments, config>>

\* santa cluster create NAME, with a name no cluster has: Storage.create_cluster.
CreateCluster ==
    /\ Len(clusters) < MaxClusters
    /\ clusters' = Append(clusters,
                          [id |-> FreshId({ clusters[i].id : i \in DOMAIN clusters }),
                           member_ids |-> <<>>])
    /\ Done("cluster create", "ok")
    /\ UNCHANGED <<engine_vars, participants, data_assignments, config>>

\* list.remove(x): the list without the first occurrence of x.
ListRemove(xs, x) ==
    IF x \notin Range(xs) THEN xs
    ELSE LET k == CHOOSE i \in DOMAIN xs : xs[i] = x /\ \A j \in 1..(i - 1) : xs[j] # x
         IN  [i \in 1..(Len(xs) - 1) |-> IF i < k THEN xs[i] ELSE xs[i + 1]]

\* list.pop(i)
ListPop(xs, k) == [i \in 1..(Len(xs) - 1) |-> IF i < k THEN xs[i] ELSE xs[i + 1]]

\* santa remove NAME, the name found: Storage.remove_participant.
RemoveParticipant(pi) ==
    /\ pi \in DOMAIN participants
    /\ clusters' = [c \in DOMAIN clusters |->
                      [clusters[c] EXCEPT !.member_ids =
                          ListRemove(clusters[c].member_ids, participants[pi].id)]]
    /\ participants' = ListPop(participants, pi)
    /\ Done("remove", "ok")
    /\ UNCHANGED <<engine_vars, data_assignments, config>>

\* santa cluster add CLUSTER PARTICIPANT, both found: Storage.add_to_cluster.
AddToCluster(ci, pi) ==
    /\ ci \in DOMAIN clusters
    /\ pi \in DOMAIN participants
    /\ clusters' = [c \in DOMAIN clusters |->
                      LET without == ListRemove(clusters[c].member_ids, participants[pi].id)
                      IN  [clusters[c] EXCEPT !.member_ids =
                              IF c = ci THEN Append(without, participants[pi].id)
                              ELSE without]]
    /\ participants' = [participants EXCEPT ![pi].cluster_id = clusters[ci].id]
    /\ Done("cluster add", "ok")
    /\ UNCHANGED <<engine_vars, data_assignments, config>>

\* santa config [--api-key K] [--sender-email E]: what is given is set.
ConfigCmd(key, sender) ==
    /\ key \/ sender
    /\ config' = [brevo_api_key |-> config.brevo_api_key \/ key,
                  sender_email |-> config.sender_email \/ sender]
    /\ Done("config", "ok")
    /\ UNCHANGED <<engine_vars, participants, clusters, data_assignments>>

\* Mutant of SaveOnAssign: the stored batch is cleared before the engine runs.
SaveOnAssign_clear_first(existing, o) ==
    IF o.kind = "ok" THEN o.list ELSE <<>>

\* Mutant of SaveOnAssign: the new batch is merged with the stored one, an assignment
\* keeping the email_sent flag that the stored assignment of its giver had.
SaveOnAssign_merge(existing, o) ==
    IF o.kind = "ok"
    THEN [i \in DOMAIN o.list |->
            [o.list[i] EXCEPT !.email_sent =
                \E j \in DOMAIN existing :
                    existing[j].giver_id = o.list[i].giver_id /\ existing[j].email_sent]]
    ELSE existing

\* What assign leaves in data.assignments: Storage.save_assignments(assignments)
\* after create_assignments returned; nothing is saved when it raised.
SaveOnAssign(existing, o) ==
    IF o.kind = "ok" THEN o.list ELSE existing

\* Mutant of Assign: the stored batch is not looked at.
Assign_unguarded(force, sep) ==
    \E o \in create_assignments(participants, DefaultMaxAttempts, sep) :
        /\ data_assignments' = SaveOnAssign(data_assignments, o)
        /\ Done("assign", o.kind)

\* santa assign [--force] [--separate-kids]
Assign(force, sep) ==
    LET existing == data_assignments
    IN  IF existing # <<>> /\ ~force
        THEN /\ Done("assign", "exists")
             /\ UNCHANGED data_assignments
        ELSE \E o \in create_assignments(participants, DefaultMaxAttempts, sep) :
                /\ data_assignments' = SaveOnAssign(existing, o)
                /\ Done("assign", o.kind)

AssignCmd(force, sep) ==
    /\ Assign(force, sep)
    /\ UNCHANGED <<engine_vars, participants, clusters, config>>

\* Mutant of SendStatus: an assignment that was sent is sent again.
SendStatus_resend(a, dry_run, api_ok) ==
    IF ~config.brevo_api_key THEN "error"
    ELSE IF ~config.sender_email THEN "error"
    ELSE IF dry_run THEN "would_send"
    ELSE IF api_ok THEN "sent"
    ELSE "error"

\* send_assignment_email and the loop body of send_all_assignments: the status of
\* the result for one assignment; api_ok is whether the Brevo call succeeds.
SendStatus(a, dry_run, api_ok) ==
    IF a.email_sent /\ ~dry_run THEN "already_sent"
    ELSE IF ~config.brevo_api_key THEN "error"
    ELSE IF ~config.sender_email THEN "error"
    ELSE IF dry_run THEN "would_send"
    ELSE IF api_ok THEN "sent"
    ELSE "error"

\* Mutant of send_all_assignments: the loop ends at the first EmailError.
send_all_assignments_stop(batch, dry_run, api) ==
    LET status == [i \in DOMAIN batch |-> SendStatus(batch[i], dry_run, api[i])]
        Before(i) == \A j \in 1..(i - 1) : status[j] # "error"
        n == Cardinality({ i \in DOMAIN batch : Before(i) })
    IN  [i \in 1..n |->
            [to |-> batch[i].giver_email, giver |-> batch[i].giver_name, status |-> status[i]]]

\* send_all_assignments(assignments, config, dry_run, on_progress): one result per
\* assignment, in the order of the loop; api[i] is whether the Brevo call for the
\* i-th assignment succeeds, if it is made.
send_all_assignments(batch, dry_run, api) ==
    [i \in DOMAIN batch |->
        [to |-> batch[i].giver_email, giver |-> batch[i].giver_name,
         status |-> SendStatus(batch[i], dry_run, api[i])]]

\* for assignment, result in zip(assignments, results): mark the sent ones.
RECURSIVE MarkSent(_, _, _)
MarkSent(batch, results, i) ==
    IF i > Len(results) \/ i > Len(data_assignments) THEN batch
    ELSE MarkSent(IF results[i].status = "sent"
                  THEN mark_email_sent(batch, data_assignments[i].giver_id) ELSE batch,
                  results, i + 1)

\* Mutant of DryRunKeeps: a dry run marks what it would send.
DryRunKeeps_marks(batch, results) ==
    [k \in DOMAIN batch |->
        IF k \in DOMAIN results /\ results[k].status = "would_send"
        THEN [batch[k] EXCEPT !.email_sent = TRUE] ELSE batch[k]]

\* if not dry_run: ... : a dry run marks nothing.
DryRunKeeps(batch, results) == batch

\* The send command has run send_all_assignments and marked the sent emails.
DoneSend(cmd, results) ==
    /\ last = AtPrompt
    /\ last' = [cmd |-> cmd, outcome |-> "done",
                over_sent |-> \E i \in DOMAIN data_assignments : data_assignments[i].email_sent,
                results |-> results]

\* santa send [--dry-run]
Send(dry_run) ==
    IF data_assignments = <<>>
    THEN Done("send", "no assignments") /\ UNCHANGED data_assignments
    ELSE IF ~config.brevo_api_key /\ ~dry_run
    THEN Done("send", "not configured") /\ UNCHANGED data_assignments
    ELSE \E api \in [DOMAIN data_assignments -> BOOLEAN] :
            LET results == send_all_assignments(data_assignments, dry_run, api)
            IN  /\ data_assignments' =
                      (IF dry_run THEN DryRunKeeps(data_assignments, results)
                       ELSE MarkSent(data_assignments, results, 1))
                /\ DoneSend(IF dry_run THEN "send --dry-run" ELSE "send", results)

SendCmd(dry_run) ==
    /\ Send(dry_run)
    /\ UNCHANGED <<engine_vars, participants, clusters, config>>

\* santa clear: the data directory is deleted; the next command loads SecretSantaData().
ClearCmd ==
    /\ participants' = <<>>
    /\ clusters' = <<>>
    /\ data_assignments' = <<>>
    /\ config' = [brevo_api_key |-> FALSE, sender_email |-> FALSE]
    /\ Done("clear", "ok")
    /\ UNCHANGED engine_vars

InitCli ==
    /\ participants = <<>>
    /\ separate_kids = FALSE
    /\ max_attempts = DefaultMaxAttempts
    /\ EngineIdle
    /\ EmptyStore

NextCli ==
    \/ \E kid \in BOOLEAN : AddParticipant(kid)
    \/ RemoveParticipant(Len(participants))   \* the newest participant is the one named
    \/ CreateCluster
    \/ \E ci \in 1..MaxClusters, pi \in 1..MaxStored : AddToCluster(ci, pi)
    \/ \E key, sender \in BOOLEAN : ConfigCmd(key, sender)
    \/ \E force, sep \in BOOLEAN : AssignCmd(force, sep)
    \/ \E dry_run \in BOOLEAN : SendCmd(dry_run)
    \/ ClearCmd
    \/ Exit

SpecCli == InitCli /\ [][NextCli]_vars

\* ------------------------------------------------------------------ storage.py, by name
\* Names are sequences of characters.  The names the commands are given: two of them
\* differ in letter case only.
PersonNames == {<<"A", "l">>, <<"a", "L">>, <<"B", "o">>}
ClusterNames == {<<"F", "a", "m">>, <<"f", "A", "M">>, <<"W", "k">>}

UpperLetters ==
    <<"A", "B", "C", "D", "E", "F", "G", "H", "I", "J", "K", "L", "M",
      "N", "O", "P", "Q", "R", "S", "T", "U", "V", "W", "X", "Y", "Z">>
LowerLetters ==
    <<"a", "b", "c", "d", "e", "f", "g", "h", "i", "j", "k", "l", "m",
      "n", "o", "p", "q", "r", "s", "t", "u", "v", "w", "x", "y", "z">>

\* The lower-case letter of every upper-case letter.
LowerOf ==
    [c \in Range(UpperLetters) |->
        LowerLetters[CHOOSE n \in DOMAIN UpperLetters : UpperLetters[n] = c]]

\* str.lower(), on one character
LowerChar(c) == IF c \in DOMAIN LowerOf THEN LowerOf[c] ELSE c

Lower(name) == [i \in 1..Len(name) |-> LowerChar(name[i])]

\* Mutant of SameName: the comparison is case-sensitive.
SameName_exact(a, b) == a = b

\* x.name.lower() == name.lower()
SameName(a, b) == Lower(a) = Lower(b)

\* The index of the first element of xs with that name, 0 if there is none:
\* get_participant_by_name, get_cluster_by_name and the loops of create_cluster and
\* remove_participant.
FirstNamed(xs, name) ==
    IF \E i \in DOMAIN xs : SameName(xs[i].name, name)
    THEN CHOOSE i \in DOMAIN xs :
            /\ SameName(xs[i].name, name)
            /\ \A j \in 1..(i - 1) : ~SameName(xs[j].name, name)
    ELSE 0

\* Mutant of WithoutMember: no member list is touched.
WithoutMember_kept(cs, x) == cs

\* for c in data.clusters: if x in c.member_ids: c.member_ids.remove(x)
WithoutMember(cs, x) ==
    [c \in DOMAIN cs |-> [cs[c] EXCEPT !.member_ids = ListRemove(cs[c].member_ids, x)]]

\* Storage.add_participant(Participant(name=name, email=email)): santa add.
add_participant(name, email) ==
    IF \E i \in DOMAIN participants : participants[i].email = email
    THEN /\ Done("add", "error")
         /\ UNCHANGED <<participants, clusters>>
    ELSE /\ Len(participants) < MaxMembers
         /\ participants' =
               Append(participants,
                      [Participant(FreshId({ participants[i].id : i \in DOMAIN participants }),
                                   NoCluster, FALSE)
                       EXCEPT !.name = name, !.email = email])
         /\ Done("add", "ok")
         /\ UNCHANGED clusters

\* Storage.remove_participant(name): santa remove.
remove_participant(name) ==
    LET i == FirstNamed(participants, name)
    IN  IF i = 0
        THEN /\ Done("remove", "not found")
             /\ UNCHANGED <<participants, clusters>>
        ELSE /\ clusters' = WithoutMember(clusters, participants[i].id)
             /\ participants' = ListPop(participants, i)
             /\ Done("remove", "ok")

\* Storage.create_cluster(Cluster(name=name)): santa cluster create.
create_cluster(name) ==
    IF FirstNamed(clusters, name) # 0
    THEN /\ Done("cluster create", "error")
         /\ UNCHANGED <<participants, clusters>>
    ELSE /\ Len(clusters) < NumClusters
         /\ clusters' = Append(clusters,
                               [id |-> FreshId({ clusters[i].id : i \in DOMAIN clusters }),
                                name |-> name, member_ids |-> <<>>])
         /\ Done("cluster create", "ok")
         /\ UNCHANGED participants

\* Storage.add_to_cluster(cluster_name, participant_name): santa cluster add.
add_to_cluster(cluster_name, participant_name) ==
    LET c == FirstNamed(clusters, cluster_name)
        i == FirstNamed(participants, participant_name)
    IN  IF c = 0 \/ i = 0
        THEN /\ Done("cluster add", "error")
             /\ UNCHANGED <<participants, clusters>>
        ELSE LET without == WithoutMember(clusters, participants[i].id)
             IN  /\ clusters' = [without EXCEPT ![c].member_ids =
                                     Append(without[c].member_ids, participants[i].id)]
                 /\ participants' = [participants EXCEPT ![i].cluster_id = clusters[c].id]
                 /\ Done("cluster add", "ok")

\* Storage.remove_from_cluster(cluster_name, participant_name): santa cluster kick.
remove_from_cluster(cluster_name, participant_name) ==
    LET c == FirstNamed(clusters, cluster_name)
        i == FirstNamed(participants, participant_name)
    IN  IF c = 0 \/ i = 0 \/ participants[i].id \notin Range(clusters[c].member_ids)
        THEN /\ Done("cluster kick", "error")
             /\ UNCHANGED <<participants, clusters>>
        ELSE /\ clusters' = [clusters EXCEPT ![c].member_ids =
                                 ListRemove(clusters[c].member_ids, participants[i].id)]
             /\ participants' = [participants EXCEPT ![i].cluster_id = NoCluster]
             /\ Done("cluster kick", "ok")

\* Storage.remove_cluster(name): santa cluster remove.
remove_cluster(name) ==
    LET c == FirstNamed(clusters, name)
    IN  IF c = 0
        THEN /\ Done("cluster remove", "not found")
             /\ UNCHANGED <<participants, clusters>>
        ELSE LET Other(x) == x.id # clusters[c].id
             IN  /\ participants' =
                       [i \in DOMAIN participants |->
                           IF participants[i].cluster_id = clusters[c].id
                           THEN [participants[i] EXCEPT !.cluster_id = NoCluster]
                           ELSE participants[i]]
                 /\ clusters' = SelectSeq(clusters, Other)
                 /\ Done("cluster remove", "ok")

NextStore ==
    \/ \E name \in PersonNames, e \in 1..MaxMembers :
          add_participant(name, Emails[e]) /\ UNCHANGED <<engine_vars, data_assignments, config>>
    \/ \E name \in PersonNames :
          remove_participant(name) /\ UNCHANGED <<engine_vars, data_assignments, config>>
    \/ \E name \in ClusterNames :
          create_cluster(name) /\ UNCHANGED <<engine_vars, data_assignments, config>>
    \/ \E cn \in ClusterNames, pn \in PersonNames :
          add_to_cluster(cn, pn) /\ UNCHANGED <<engine_vars, data_assignments, config>>
    \/ \E cn \in ClusterNames, pn \in PersonNames :
          remove_from_cluster(cn, pn) /\ UNCHANGED <<engine_vars, data_assignments, config>>
    \/ \E name \in ClusterNames :
          remove_cluster(name) /\ UNCHANGED <<engine_vars, data_assignments, config>>
    \/ Exit

\* The store of a first run, under the participant and cluster commands.
SpecStore == InitCli /\ [][NextStore]_vars

\* ------------------------------------------------------------------ assign and send on a filled store
\* The store as add, remove and the cluster commands left it, with or without a batch.
InitAssign ==
    /\ participants \in { ps \in Rosters : Len(ps) <= MaxStored }
    /\ separate_kids = FALSE
    /\ max_attempts = DefaultMaxAttempts
    /\ EngineIdle
    /\ clusters = ClustersOf(participants)
    /\ data_assignments \in StoredBatches(participants)
    /\ config = [brevo_api_key |-> FALSE, sender_email |-> FALSE]
    /\ last = AtPrompt

NextAssign ==
    \/ \E key, sender \in BOOLEAN : ConfigCmd(key, sender)
    \/ \E force, sep \in BOOLEAN : AssignCmd(force, sep)
    \/ \E dry_run \in BOOLEAN : SendCmd(dry_run)
    \/ Exit

SpecAssign == InitAssign /\ [][NextAssign]_vars

\* ------------------------------------------------------------------ properties
N == Len(participants)
Ids == { participants[i].id : i \in DOMAIN participants }
ById(x) == participants[CHOOSE i \in DOMAIN participants : participants[i].id = x]
Succeeded == pc = "done" /\ outcome = "ok"

\* The members of a group that hold cluster cid.
Holders(group, cid) == { p \in group : p.cluster_id = cid }

\* Some cluster holds strictly more than half of a group of size >= 2.
Oversized(group) ==
    /\ Cardinality(group) >= 2
    /\ \E cid \in 1..NumClusters : 2 * Cardinality(Holders(group, cid)) > Cardinality(group)

KidSet == { p \in Range(participants) : p.is_kid }
AdultSet == { p \in Range(participants) : ~p.is_kid }

\* A group of the claim: the roster, or each partition class.
OversizedGroup ==
    IF separate_kids THEN Oversized(KidSet) \/ Oversized(AdultSet)
    ELSE Oversized(Range(participants))

\* C1: a successful run on N >= 2 participants returns exactly N assignments, every
\* participant id is the giver of exactly one and the receiver of exactly one, and
\* no assignment has giver_id = receiver_id.
C1_Derangement ==
    (Succeeded /\ N >= 2) =>
        /\ Len(returned) = N
        /\ \A x \in Ids :
              /\ Cardinality({ i \in DOMAIN returned : returned[i].giver_id = x }) = 1
              /\ Cardinality({ i \in DOMAIN returned : returned[i].receiver_id = x }) = 1
        /\ \A i \in DOMAIN returned : returned[i].giver_id # returned[i].receiver_id

\* A successful run on four participants that returns two exchanging pairs.
C1_Witness ==
    /\ Succeeded
    /\ N = 4
    /\ \A i \in DOMAIN returned : \E j \in DOMAIN returned :
          /\ returned[j].giver_id = returned[i].receiver_id
          /\ returned[j].receiver_id = returned[i].giver_id

\* C2: in a successful run no assignment pairs two participants that have the same
\* non-null cluster_id.
C2_ClusterExclusion ==
    Succeeded =>
        \A i \in DOMAIN returned :
            LET g == ById(returned[i].giver_id)
                r == ById(returned[i].receiver_id)
            IN  ~(g.cluster_id # NoCluster /\ g.cluster_id = r.cluster_id)

\* A successful run on a roster in which two participants share a cluster.
C2_Witness ==
    /\ Succeeded
    /\ \E i, j \in DOMAIN participants :
          /\ i # j
          /\ participants[i].cluster_id # NoCluster
          /\ participants[i].cluster_id = participants[j].cluster_id

\* C2, second half: two participants without a cluster are paired in a successful run.
C2_NoClusterPaired ==
    /\ Succeeded
    /\ \E i \in DOMAIN returned :
          /\ ById(returned[i].giver_id).cluster_id = NoCluster
          /\ ById(returned[i].receiver_id).cluster_id = NoCluster

\* C3: with separate_kids on, every assignment of a successful run pairs a giver and
\* a receiver of the same is_kid value, and not of the same non-null cluster.
C3_SameClass ==
    (Succeeded /\ separate_kids) =>
        \A i \in DOMAIN returned :
            LET g == ById(returned[i].giver_id)
                r == ById(returned[i].receiver_id)
            IN  /\ g.is_kid = r.is_kid
                /\ ~(g.cluster_id # NoCluster /\ g.cluster_id = r.cluster_id)

\* A successful partitioned run on a roster with kids and adults.
C3_Witness ==
    /\ Succeeded
    /\ separate_kids
    /\ KidSet # {}
    /\ AdultSet # {}

\* C4 as stated: an oversized cluster in a group always ends in ClusterTooLarge, and
\* no attempt is run.
C4_Original ==
    OversizedGroup =>
        /\ attempt = 0
        /\ pc = "done" => outcome = "ClusterTooLarge"

\* C4 as amended: an oversized cluster in a group ends in ClusterTooLarge, or in
\* SinglePartitionMember when separate_kids is on and exactly one participant is a
\* kid; in both cases no attempt is run.
C4_Amended ==
    OversizedGroup =>
        /\ attempt = 0
        /\ pc \in {"start", "validate", "done"}
        /\ pc = "done" =>
              outcome = (IF separate_kids /\ Cardinality(KidSet) = 1
                         THEN "SinglePartitionMember" ELSE "ClusterTooLarge")

\* ClusterTooLarge is raised for a partition class while the other class is not empty.
C4_Witness ==
    /\ pc = "done"
    /\ outcome = "ClusterTooLarge"
    /\ separate_kids
    /\ Oversized(KidSet)
    /\ AdultSet # {}

\* C5 as stated: with separate_kids on, a partition class of exactly one member ends
\* in SinglePartitionMember and no attempt is run.  It is stated on the rosters of at
\* least two participants (C6 is about the smaller ones) in which no class has an
\* oversized cluster (C4 is about those), with a budget of at least one attempt.
C5_Original ==
    (separate_kids /\ N >= 2 /\ ~OversizedGroup /\ max_attempts >= 1
        /\ (Cardinality(KidSet) = 1 \/ Cardinality(AdultSet) = 1)) =>
        /\ attempt = 0
        /\ pc = "done" => outcome = "SinglePartitionMember"

\* C6: a roster of 0 or 1 participants ends in TooFewParticipants, whatever
\* separate_kids and max_attempts are, before any validation and any attempt.
C6_TooFew ==
    N < 2 =>
        /\ ~validated
        /\ attempt = 0
        /\ pc \in {"start", "done"}
        /\ pc = "done" => outcome = "TooFewParticipants"

C6_Witness ==
    /\ pc = "done"
    /\ N = 1
    /\ separate_kids
    /\ max_attempts > 0
    /\ outcome = "TooFewParticipants"

\* C7: SearchExhausted is raised only after validation and exactly max_attempts
\* attempts, none of which completed, and reports max_attempts; never more than
\* max_attempts attempts are started; and a validated run that ends without a
\* complete attempt ends in SearchExhausted.
C7_Exhausted ==
    /\ attempt <= max_attempts
    /\ outcome = "SearchExhausted" =>
          /\ validated
          /\ attempt = max_attempts
          /\ reported = max_attempts
          /\ completed = <<>>
    /\ (pc = "done" /\ validated /\ completed = <<>>
          /\ ValidationError(participants, separate_kids) = "none") =>
          outcome = "SearchExhausted"

\* All of two attempts dead-ended.
C7_Witness ==
    /\ outcome = "SearchExhausted"
    /\ max_attempts >= 2
    /\ attempt = max_attempts

\* C7, the empty budget: no attempt is run.
C7_ZeroBudget ==
    /\ outcome = "SearchExhausted"
    /\ max_attempts = 0
    /\ attempt = 0

Outcomes ==
    {"ok", "TooFewParticipants", "SinglePartitionMember", "ClusterTooLarge",
     "SearchExhausted"}

\* C8: every call ends, in exactly one of success and the four errors and then takes
\* no further step; at most max_attempts attempts are started and an attempt takes at
\* most N giver steps.
C8_Terminates ==
    /\ <>(pc = "done")
    /\ [](pc = "done" <=> outcome \in Outcomes)
    /\ [](outcome \in Outcomes \cup {"none"})
    /\ [](attempt <= max_attempts /\ Len(assignments) <= N /\ gi = Len(assignments) + 1)
    /\ [][pc # "done"]_vars

\* A call that used its whole budget of two attempts, the last one of four giver steps.
C8_Witness ==
    /\ pc = "done"
    /\ attempt = max_attempts
    /\ max_attempts = 2
    /\ N = 4
    /\ Len(returned) = N

\* C9: at most one attempt completes; once it has, no further attempt is started
\* (the attempts run are its index) and create_assignments returns its list.
C9_FirstSuccess ==
    /\ Len(completed) <= 1
    /\ completed # <<>> =>
          /\ attempt = completed[1][1]
          /\ pc \in {"check", "done"}
          /\ pc = "done" => (outcome = "ok" /\ returned = completed[1][2])
    /\ outcome = "ok" => completed # <<>>

\* The second attempt is the first to complete, and is returned.
C9_Witness ==
    /\ Succeeded
    /\ attempt = 2
    /\ completed = << <<2, returned>> >>

\* Every way the state machine of Spec ends is a way the relation create_assignments,
\* which SpecCli uses, ends.
MachineWithinRelation ==
    pc = "done" =>
        [kind |-> outcome, list |-> returned]
            \in create_assignments(participants, max_attempts, separate_kids)

FourErrors ==
    {"TooFewParticipants", "SinglePartitionMember", "ClusterTooLarge", "SearchExhausted"}

\* A complete list for the roster: one assignment per participant, as giver.
CompleteFor(batch, ps) ==
    /\ Len(batch) = Len(ps)
    /\ { batch[i].giver_id : i \in DOMAIN batch } = { ps[i].id : i \in DOMAIN ps }
    /\ { batch[i].receiver_id : i \in DOMAIN batch } = { ps[i].id : i \in DOMAIN ps }

\* C10: an assign command in which create_assignments fails leaves the stored batch
\* as it was, email_sent flags included; assign changes the stored batch only when
\* create_assignments succeeded, and then to a complete list for the roster.
C10_FailedAssignKeepsBatch ==
    [][ last'.cmd = "assign" =>
          /\ last'.outcome \in FourErrors => data_assignments' = data_assignments
          /\ data_assignments' # data_assignments => last'.outcome = "ok"
          /\ last'.outcome = "ok" => CompleteFor(data_assignments', participants) ]_vars

\* A forced assign failed over a stored batch of which an email had been sent.
C10_Witness ==
    /\ last.cmd = "assign"
    /\ last.outcome \in FourErrors
    /\ \E i \in DOMAIN data_assignments : data_assignments[i].email_sent
    /\ \E i \in DOMAIN data_assignments : ~data_assignments[i].email_sent

\* C10, the fourth error: the roster shrank below two after a batch was stored and
\* sent, and a forced assign failed over it.
C10_TooFewOverBatch ==
    /\ last.cmd = "assign"
    /\ last.outcome = "TooFewParticipants"
    /\ \E i \in DOMAIN data_assignments : data_assignments[i].email_sent

\* C11: create_assignments, whether it succeeds or fails, leaves the participant list
\* (members, fields and order), the cluster list and the stored assignments as they
\* were: no step of it changes them, the shuffles included.
C11_StorageUnchanged ==
    [][ /\ participants' = participants
        /\ clusters' = clusters
        /\ data_assignments' = data_assignments ]_vars

\* A call that shuffled twice ended, over a store with a cluster of two members and a
\* batch of which one email was sent.
C11_Witness ==
    /\ pc = "done"
    /\ attempt = 2
    /\ N = 3
    /\ \E c \in DOMAIN clusters : Len(clusters[c].member_ids) = 2
    /\ \E i \in DOMAIN data_assignments : data_assignments[i].email_sent
    /\ \E i \in DOMAIN data_assignments : ~data_assignments[i].email_sent

\* C11, the failing call: SearchExhausted over the same kind of store.
C11_FailedOverStore ==
    /\ outcome = "SearchExhausted"
    /\ attempt = 2
    /\ data_assignments # <<>>
    /\ \E c \in DOMAIN clusters : clusters[c].member_ids # <<>>

\* The (giver_id, receiver_id) pairs of a list of assignments.
Pairs(list) == { <<list[i].giver_id, list[i].receiver_id>> : i \in DOMAIN list }

\* The roster is two participants that do not share a cluster.
TwoApart ==
    /\ N = 2
    /\ ~_same_cluster(participants[1].id, participants[2].id, ClusterMapOf(participants))

\* C12: on two participants that do not share a cluster, with separate_kids off and
\* max_attempts >= 1, the first attempt completes whatever the shuffle and the choices
\* are, no second attempt is started, and the call returns exactly A->B and B->A.
C12_TwoParticipants ==
    (TwoApart /\ ~separate_kids /\ max_attempts >= 1) =>
        /\ attempt <= 1
        /\ outcome \in {"none", "ok"}
        /\ pc = "check" => IsResult(result)
        /\ pc = "try" => Len(assignments) = gi - 1
        /\ pc = "done" =>
              /\ outcome = "ok"
              /\ attempt = 1
              /\ Len(returned) = 2
              /\ Pairs(returned) = { <<participants[1].id, participants[2].id>>,
                                     <<participants[2].id, participants[1].id>> }

\* An adult and a kid were matched, the shuffle having put the second participant
\* first, with a budget of two attempts.
C12_Witness ==
    /\ Succeeded
    /\ N = 2
    /\ ~separate_kids
    /\ max_attempts = 2
    /\ participants[1].is_kid # participants[2].is_kid
    /\ returned[1].giver_id = participants[2].id

\* C12, the other roster of the claim: two participants of two different clusters.
C12_TwoClusters ==
    /\ Succeeded
    /\ N = 2
    /\ ~separate_kids
    /\ participants[1].cluster_id # NoCluster
    /\ participants[2].cluster_id # NoCluster

\* C13: every assignment of the list, as it is built and as it is returned, carries
\* the name and email of the participant with its giver_id and of the participant
\* with its receiver_id, the parent_email and is_kid of the giver, the code
\* generate_verification_code(giver_id, receiver_id), and email_sent = FALSE.
AssignmentOf(a) ==
    LET g == ById(a.giver_id)
        r == ById(a.receiver_id)
    IN  /\ a.giver_name = g.name
        /\ a.giver_email = g.email
        /\ a.receiver_name = r.name
        /\ a.receiver_email = r.email
        /\ a.parent_email = g.parent_email
        /\ a.is_kid = g.is_kid
        /\ a.verification_code = generate_verification_code(a.giver_id, a.receiver_id)
        /\ a.email_sent = FALSE

C13_AssignmentFields ==
    /\ \A i \in DOMAIN assignments : AssignmentOf(assignments[i])
    /\ \A i \in DOMAIN returned : AssignmentOf(returned[i])

\* A returned assignment whose giver and receiver differ in parent_email and in is_kid.
C13_Witness ==
    /\ Succeeded
    /\ \E i \in DOMAIN returned :
          LET g == ById(returned[i].giver_id)
              r == ById(returned[i].receiver_id)
          IN  /\ g.parent_email # NoEmail
              /\ r.parent_email = NoEmail
              /\ g.is_kid # r.is_kid
              /\ returned[i].parent_email = g.parent_email

\* C14: the code is a function of the ordered pair (giver_id, receiver_id) alone.  The
\* code stored in an assignment is at every time the code a fresh call returns for
\* its pair, whatever commands ran since it was stored; and the codes that two
\* generation runs store for the same pair are the same.
C14_CodeOfPairOnly ==
    /\ [](\A i \in DOMAIN data_assignments :
            data_assignments[i].verification_code =
                generate_verification_code(data_assignments[i].giver_id,
                                           data_assignments[i].receiver_id))
    /\ [][ \A i \in DOMAIN data_assignments, j \in DOMAIN data_assignments' :
              (/\ data_assignments[i].giver_id = data_assignments'[j].giver_id
               /\ data_assignments[i].receiver_id = data_assignments'[j].receiver_id)
              => data_assignments[i].verification_code
                     = data_assignments'[j].verification_code ]_vars

\* A batch for three participants is stored, an email of it was sent, and the roster
\* has changed since: one of the three was removed.
C14_Witness ==
    /\ Len(data_assignments) = 3
    /\ Len(participants) = 2
    /\ \E i \in DOMAIN data_assignments : data_assignments[i].email_sent

\* The two assignments are of distinct ordered pairs.
DistinctPairs(a, b) == a.giver_id # b.giver_id \/ a.receiver_id # b.receiver_id

UpperHexChars ==
    {"0", "1", "2", "3", "4", "5", "6", "7", "8", "9", "A", "B", "C", "D", "E", "F"}

C16_AssignReplaces ==
    [][ (last'.cmd = "assign" /\ last'.outcome = "ok") =>
          /\ \E sep \in BOOLEAN :
                Success(data_assignments')
                    \in create_assignments(participants, DefaultMaxAttempts, sep)
          /\ CompleteFor(data_assignments', participants)
          /\ \A i \in DOMAIN data_assignments' : AssignmentOf(data_assignments'[i])
          /\ \A i \in DOMAIN data_assignments' : ~data_assignments'[i].email_sent ]_vars

\* A forced assign succeeded over a batch of which an email had been sent.
C16_Witness ==
    /\ last.cmd = "assign"
    /\ last.outcome = "ok"
    /\ last.over_sent
    /\ Len(data_assignments) = 3

\* The store of the state, with the list batch as its stored assignments.
StoreWith(batch) ==
    [participants |-> participants, clusters |-> clusters, assignments |-> batch,
     config |-> config]

\* The outcomes a running call can still end in from the head of the loop with k
\* attempts made, results being the values an attempt can return.
RECURSIVE LoopOutcomes(_, _)
LoopOutcomes(results, k) ==
    IF LoopContinues(k, max_attempts)
    THEN { Success(r.list) : r \in { x \in results : IsResult(x) } }
         \cup (IF None \in results THEN LoopOutcomes(results, k + 1) ELSE {})
    ELSE {Failure("SearchExhausted")}

\* The outcomes the call can still end in, from its current position.
Possible ==
    LET e == ValidationError(participants, separate_kids)
        rest(k) == LoopOutcomes(_try_assign(participants, separate_kids), k)
    IN  CASE pc = "start" ->
                IF TooFew(participants) THEN {Failure("TooFewParticipants")}
                ELSE IF e # "none" THEN {Failure(e)}
                ELSE rest(0)
          [] pc = "validate" -> IF e # "none" THEN {Failure(e)} ELSE rest(0)
          [] pc = "loop" -> rest(attempt)
          [] pc = "try" ->
                LET results == TryAssignFrom(participants, separate_kids, givers, gi,
                                             used_receivers, assignments)
                IN  { Success(r.list) : r \in { x \in results : IsResult(x) } }
                    \cup (IF None \in results THEN rest(attempt) ELSE {})
          [] pc = "check" ->
                IF IsResult(result) THEN {Success(result.list)} ELSE rest(attempt)
          [] OTHER -> {[kind |-> outcome, list |-> returned]}

\* C17: the set of outcomes of create_assignments is the same for two stores that
\* have the same participants and clusters and differ in the stored assignments or
\* their email_sent flags.  On the store of the state and on that store with any other
\* batch the set is the same; and the call that runs on the store of the state can
\* end in exactly the outcomes of that set: it starts with all of them possible, no
\* step adds one, and every outcome still possible stays possible after some step.
C17_IndependentOfBatch ==
    /\ [](pc = "start" =>
            \A batch \in StoredBatches(participants) :
                create_assignments_on(StoreWith(batch), max_attempts, separate_kids)
                    = create_assignments_on(StoreWith(data_assignments), max_attempts,
                                            separate_kids))
    /\ [](pc = "start" =>
            Possible = create_assignments_on(StoreWith(data_assignments), max_attempts,
                                             separate_kids))
    /\ [](pc # "done" => \A g \in Possible : ENABLED (Next /\ g \in Possible'))
    /\ [][Possible' \subseteq Possible]_vars

\* A call on a roster of three, which has several outcomes, ended in a list over a
\* store that holds a batch of which an email was sent.
C17_Witness ==
    /\ Succeeded
    /\ N = 3
    /\ \E i \in DOMAIN data_assignments : data_assignments[i].email_sent
    /\ Cardinality(create_assignments_on(StoreWith(<<>>), max_attempts, separate_kids)) > 1

\* The number of times x occurs in the list xs.
Occurrences(xs, x) == Cardinality({ i \in DOMAIN xs : xs[i] = x })

\* C18: after any sequence of add_participant, remove_participant, create_cluster,
\* add_to_cluster, remove_from_cluster and remove_cluster, successful or failing, an
\* id is in a cluster's member_ids iff a current participant with that id has that
\* cluster's id as cluster_id, and then it is there exactly once; so a participant is
\* listed by at most one cluster, and no cluster lists a removed participant.
C18_ClusterConsistency ==
    /\ \A c \in DOMAIN clusters :
          \A x \in Range(clusters[c].member_ids) \cup Ids :
              /\ (x \in Range(clusters[c].member_ids))
                    <=> (\E i \in DOMAIN participants :
                            /\ participants[i].id = x
                            /\ participants[i].cluster_id = clusters[c].id)
              /\ Occurrences(clusters[c].member_ids, x) <= 1
    /\ \A i \in DOMAIN participants :
          Cardinality({ c \in DOMAIN clusters :
                          participants[i].id \in Range(clusters[c].member_ids) }) <= 1
    /\ \A c \in DOMAIN clusters : Range(clusters[c].member_ids) \subseteq Ids

\* A participant was removed; the one that remains had been moved to the second
\* cluster, and the first cluster is empty.
C18_Witness ==
    /\ last.cmd = "remove"
    /\ last.outcome = "ok"
    /\ Len(participants) = 1
    /\ Len(clusters) = 2
    /\ clusters[1].member_ids = <<>>
    /\ clusters[2].member_ids = <<participants[1].id>>
    /\ participants[1].id = 2

\* C19: no two stored clusters have names that are equal ignoring letter case; and a
\* create_cluster whose name matches, ignoring case, the name of a stored cluster
\* fails with an error and leaves the cluster list and the participants as they were.
C19_UniqueClusterNames ==
    /\ [](\A c, d \in DOMAIN clusters :
            c # d => Lower(clusters[c].name) # Lower(clusters[d].name))
    /\ [][ \A name \in ClusterNames :
              (/\ create_cluster(name)
               /\ \E c \in DOMAIN clusters : Lower(clusters[c].name) = Lower(name))
              => /\ last'.cmd = "cluster create"
                 /\ last'.outcome = "error"
                 /\ clusters' = clusters
                 /\ participants' = participants ]_vars

\* cluster create failed on a name that differs in case only from the name of the one
\* stored cluster, which has a member.
C19_Witness ==
    /\ last.cmd = "cluster create"
    /\ last.outcome = "error"
    /\ Len(clusters) = 1
    /\ clusters[1].name = <<"f", "A", "M">>
    /\ clusters[1].member_ids # <<>>

\* C19: two clusters with different names are stored.
C19_TwoClusters ==
    /\ Len(clusters) = 2
    /\ clusters[1].name # clusters[2].name

\* The groups that create_assignments validates, or would validate, for the roster.
Groups == {participants, kids(participants), adults(participants)}

\* C20: on a group of size >= 2, _validate_cluster_sizes raises iff some non-null
\* cluster id is held by strictly more than half of the members; a call without
\* separate_kids on a roster of at least two ends in ClusterTooLarge exactly in that
\* case, before any attempt.
C20_StrictlyMoreThanHalf ==
    /\ \A group \in Groups :
          Len(group) >= 2 => (_validate_cluster_sizes(group) <=> Oversized(Range(group)))
    /\ (pc = "done" /\ ~separate_kids /\ N >= 2) =>
          (outcome = "ClusterTooLarge" <=> Oversized(Range(participants)))
    /\ outcome = "ClusterTooLarge" => attempt = 0

\* A roster of four in which a cluster holds exactly two passed the validation and
\* was matched.
C20_Witness ==
    /\ Succeeded
    /\ ~separate_kids
    /\ N = 4
    /\ \E cid \in 1..NumClusters :
          Cardinality(Holders(Range(participants), cid)) = 2

\* C20: three of four participants have no cluster, and the roster passed.
C20_NoClusterMajority ==
    /\ Succeeded
    /\ ~separate_kids
    /\ N = 4
    /\ Cardinality(Holders(Range(participants), NoCluster)) = 3

\* C20: a cluster of two in a roster of three is refused.
C20_Refused ==
    /\ outcome = "ClusterTooLarge"
    /\ ~separate_kids
    /\ N = 3
    /\ \E cid \in 1..NumClusters :
          Cardinality(Holders(Range(participants), cid)) = 2

\* The roster passes the validation of a call without separate_kids.
PassesValidation ==
    /\ ~TooFew(participants)
    /\ ValidationError(participants, FALSE) = "none"

\* The attempt that is running can still assign every giver.
CanComplete ==
    \E r \in TryAssignFrom(participants, separate_kids, givers, gi, used_receivers,
                           assignments) : IsResult(r)

\* C21: with separate_kids off, a roster that passes validation (N >= 2 and no cluster
\* holds more than half of it) has a successful outcome when max_attempts >= 1: the
\* validation lets it through exactly when the claim's condition holds; an attempt can
\* start with a shuffle from which every giver can be assigned; from a position from
\* which every giver can be assigned, the next giver has a pick that keeps it so; and
\* an attempt that assigned every giver is returned as the outcome ok.
C21_SuccessReachable ==
    (~separate_kids /\ max_attempts >= 1) =>
        /\ PassesValidation <=> (N >= 2 /\ ~Oversized(Range(participants)))
        /\ (PassesValidation /\ pc \in {"start", "validate"}) =>
              /\ \E o \in create_assignments(participants, max_attempts, separate_kids) :
                    o.kind = "ok"
              /\ ENABLED ((Enter \/ Validate) /\ pc' \in {"validate", "loop"})
        /\ (pc = "loop" /\ LoopContinues(attempt, max_attempts)) =>
              ENABLED (StartAttempt /\ CanComplete')
        /\ (pc = "try" /\ gi <= Len(givers) /\ CanComplete) =>
              ENABLED (GiverStep /\ pc' = "try" /\ CanComplete')
        /\ (pc = "try" /\ gi > Len(givers)) =>
              ENABLED (TryReturn /\ IsResult(result'))
        /\ (pc = "check" /\ IsResult(result)) =>
              ENABLED (CheckResult /\ outcome' = "ok" /\ pc' = "done")

\* The one attempt of a call succeeded on a roster of four in which each of two
\* clusters holds exactly half of the participants.
C21_Witness ==
    /\ Succeeded
    /\ ~separate_kids
    /\ max_attempts = 1
    /\ N = 4
    /\ \A cid \in 1..NumClusters : Cardinality(Holders(Range(participants), cid)) = 2

\* The roster of the example: three participants, none in a cluster, matched without
\* separate_kids.
ThreeWithoutClusters ==
    /\ ~separate_kids
    /\ N = 3
    /\ \A i \in DOMAIN participants : participants[i].cluster_id = NoCluster

\* The attempt that is running can still end without a receiver for some giver.
CanDeadEnd ==
    None \in TryAssignFrom(participants, separate_kids, givers, gi, used_receivers,
                           assignments)

\* C22: the search is incomplete.  Three participants without clusters pass the
\* validation and have a valid assignment, and yet: every attempt on them can start
\* with a shuffle from which a dead end can be met; from a position from which a dead
\* end can be met the next giver step is the dead end or a pick that keeps one ahead;
\* a dead-ended attempt sends the loop on; and the loop that has made max_attempts
\* attempts raises SearchExhausted.  So one attempt can dead-end, and so can all of
\* them.
C22_SearchIncomplete ==
    ThreeWithoutClusters =>
        /\ PassesValidation
        /\ \E r \in _try_assign(participants, separate_kids) : IsResult(r)
        /\ (pc = "loop" /\ LoopContinues(attempt, max_attempts)) =>
              ENABLED (StartAttempt /\ CanDeadEnd')
        /\ (pc = "try" /\ CanDeadEnd) =>
              ENABLED (/\ GiverStep
                       /\ \/ pc' = "check" /\ result' = None
                          \/ pc' = "try" /\ CanDeadEnd')
        /\ (pc = "check" /\ ~IsResult(result)) =>
              ENABLED (CheckResult /\ pc' = "loop" /\ outcome' = "none")
        /\ (pc = "loop" /\ ~LoopContinues(attempt, max_attempts)) =>
              ENABLED (Exhausted /\ outcome' = "SearchExhausted")

\* Both attempts of a call on three participants without clusters dead-ended, and the
\* call failed.
C22_Witness ==
    /\ ThreeWithoutClusters
    /\ pc = "done"
    /\ outcome = "SearchExhausted"
    /\ max_attempts = 2
    /\ attempt = 2
    /\ reported = 2

\* C22, one attempt: the first two givers exchanged, and the third found no receiver.
C22_DeadEnd ==
    /\ ThreeWithoutClusters
    /\ pc = "check"
    /\ attempt = 1
    /\ result = None

\* C22: the same call can also succeed after a dead-ended attempt.
C22_FeasibleAfterDeadEnd ==
    /\ ThreeWithoutClusters
    /\ Succeeded
    /\ attempt = 2

\* C23: within an attempt, after every giver step, the list built so far holds one
\* pair per processed giver, in giver order, no receiver twice; used_receivers is the
\* set of the receivers of these pairs; every pair is not-self, not of one non-null
\* cluster and, with separate_kids on, of one class.  A giver step that finds no valid
\* receiver ends the attempt with None: no pair of it is returned or kept.  An attempt
\* starts with an empty used set and an empty list.
C23_AttemptInvariant ==
    /\ [](pc = "try" =>
            /\ gi \in 1..(Len(givers) + 1)
            /\ Len(assignments) = gi - 1
            /\ \A i \in DOMAIN assignments : assignments[i].giver_id = givers[i].id
            /\ \A i, j \in DOMAIN givers : i # j => givers[i].id # givers[j].id
            /\ \A i, j \in DOMAIN assignments :
                  i # j => assignments[i].receiver_id # assignments[j].receiver_id
            /\ used_receivers = { assignments[i].receiver_id : i \in DOMAIN assignments }
            /\ \A i \in DOMAIN assignments :
                  LET g == ById(assignments[i].giver_id)
                      r == ById(assignments[i].receiver_id)
                  IN  /\ g.id # r.id
                      /\ ~(g.cluster_id # NoCluster /\ g.cluster_id = r.cluster_id)
                      /\ separate_kids => g.is_kid = r.is_kid)
    /\ [][ (pc = "try" /\ gi <= Len(givers) /\ pc' # "try") =>
              /\ valid_receivers(givers[gi], receivers, used_receivers,
                                 ClusterMapOf(participants), KidMapOf(participants),
                                 separate_kids) = {}
              /\ pc' = "check"
              /\ result' = None
              /\ result'.list = <<>>
              /\ assignments' = <<>>
              /\ used_receivers' = {}
              /\ returned' = returned
              /\ completed' = completed ]_vars
    /\ [][ (pc = "try" /\ gi <= Len(givers) /\ pc' = "try") =>
              /\ valid_receivers(givers[gi], receivers, used_receivers,
                                 ClusterMapOf(participants), KidMapOf(participants),
                                 separate_kids) # {}
              /\ gi' = gi + 1
              /\ Len(assignments') = Len(assignments) + 1
              /\ used_receivers' = used_receivers \cup {assignments'[gi].receiver_id}
              /\ assignments'[gi].receiver_id \notin used_receivers ]_vars
    /\ [][ (pc = "loop" /\ pc' = "try") =>
              /\ used_receivers' = {}
              /\ assignments' = <<>>
              /\ gi' = 1 ]_vars

\* An attempt of a call with separate_kids on has assigned all four givers, two kids
\* and two adults.
C23_Witness ==
    /\ pc = "try"
    /\ separate_kids
    /\ N = 4
    /\ gi = 5
    /\ Cardinality(used_receivers) = 4
    /\ Cardinality(KidSet) = 2

\* C23: the second attempt, after a dead-ended first one, has built its first pair.
C23_SecondAttempt ==
    /\ pc = "try"
    /\ attempt = 2
    /\ completed = <<>>
    /\ gi = 2
    /\ Len(assignments) = 1
    /\ N = 3

\* C23: the third giver of an attempt found no valid receiver after two pairs were
\* built; nothing of the attempt is left.
C23_Abandoned ==
    /\ pc = "check"
    /\ result = None
    /\ assignments = <<>>
    /\ used_receivers = {}
    /\ N = 4
    /\ \E i \in DOMAIN participants : participants[i].cluster_id # NoCluster

\* The roster ps with the is_kid values k in place of its own.
WithKids(ps, k) == [i \in DOMAIN ps |-> [ps[i] EXCEPT !.is_kid = k[i]]]

\* An outcome as its error kind and its list of (giver, receiver) pairings.
Pairing(o) ==
    [kind |-> o.kind,
     pairs |-> [i \in DOMAIN o.list |-> <<o.list[i].giver_id, o.list[i].receiver_id>>]]

\* The ids of a set of participants.
IdsOf(ps) == { p.id : p \in ps }

\* C24: with separate_kids off the is_kid values have no effect.  For the roster of the
\* call and every roster that differs from it in is_kid values only, the validation
\* gives the same verdict and create_assignments has the same set of errors and lists
\* of pairings; no call ends in SinglePartitionMember; and in every giver step the
\* valid receivers are the same participants for every kid_map.
C24_KidsIgnored ==
    ~separate_kids =>
        /\ pc = "start" =>
              LET verdict == ValidationError(participants, separate_kids)
                  outcomes == { Pairing(o) : o \in create_assignments(participants, max_attempts,
                                                                      separate_kids) }
              IN  \A k \in [DOMAIN participants -> BOOLEAN] :
                      /\ ValidationError(WithKids(participants, k), separate_kids) = verdict
                      /\ { Pairing(o) : o \in create_assignments(WithKids(participants, k),
                                                                 max_attempts, separate_kids) }
                            = outcomes
        /\ outcome # "SinglePartitionMember"
        /\ (pc = "try" /\ gi <= Len(givers)) =>
              \A kid_map \in [Ids -> BOOLEAN] :
                  IdsOf(valid_receivers(givers[gi], receivers, used_receivers,
                                        ClusterMapOf(participants), kid_map, separate_kids))
                    = IdsOf(valid_receivers(givers[gi], receivers, used_receivers,
                                            ClusterMapOf(participants),
                                            KidMapOf(participants), separate_kids))

\* A call without separate_kids succeeded on one kid among two adults: the kid gives
\* to an adult and receives from an adult.
C24_Witness ==
    /\ Succeeded
    /\ ~separate_kids
    /\ N = 3
    /\ Cardinality(KidSet) = 1
    /\ \E i, j \in DOMAIN returned :
          /\ ById(returned[i].giver_id).is_kid
          /\ ~ById(returned[i].receiver_id).is_kid
          /\ ById(returned[j].receiver_id).is_kid
          /\ ~ById(returned[j].giver_id).is_kid

\* Every participant of the roster is of the same partition class.
OneClass == KidSet = {} \/ AdultSet = {}

\* C25: on a roster whose participants are all kids or all adults, create_assignments
\* has the same outcomes, errors and lists, with separate_kids on as with it off: the
\* validation of a roster of at least two gives the same verdict, the relation has the
\* same set of outcomes, no call ends in SinglePartitionMember, and every giver step of
\* the running call has the same valid receivers under both values.
C25_EmptyClassSkipped ==
    OneClass =>
        /\ pc = "start" =>
              /\ ~TooFew(participants) =>
                    ValidationError(participants, TRUE) = ValidationError(participants, FALSE)
              /\ create_assignments(participants, max_attempts, TRUE)
                    = create_assignments(participants, max_attempts, FALSE)
        /\ outcome # "SinglePartitionMember"
        /\ (pc = "try" /\ gi <= Len(givers)) =>
              valid_receivers(givers[gi], receivers, used_receivers,
                              ClusterMapOf(participants), KidMapOf(participants), TRUE)
                = valid_receivers(givers[gi], receivers, used_receivers,
                                  ClusterMapOf(participants), KidMapOf(participants), FALSE)

\* A call with separate_kids on succeeded on four kids, two of them with a parent
\* email.
C25_Witness ==
    /\ Succeeded
    /\ separate_kids
    /\ N = 4
    /\ AdultSet = {}
    /\ \E i \in DOMAIN returned : returned[i].parent_email # NoEmail

\* C25: a call with separate_kids on and no kid in the roster ended in the cluster
\* error of the adults.
C25_AdultsOnlyRefused ==
    /\ outcome = "ClusterTooLarge"
    /\ separate_kids
    /\ N = 3
    /\ KidSet = {}

\* The step is the run of a send command that reached send_all_assignments.
SendRan == last'.cmd \in {"send", "send --dry-run"} /\ last'.outcome = "done"

\* C26: over send commands with no assign in between, the email of a stored assignment
\* is transmitted at most once.  A result of status sent is given only for an
\* assignment that was not marked, in a send without --dry-run, and the command leaves
\* it marked; a send without --dry-run gives an assignment that is marked the status
\* already_sent; and no command but assign changes the list or takes a mark back.
C26_SentAtMostOnce ==
    /\ [][ SendRan =>
              \A i \in DOMAIN data_assignments :
                  /\ last'.results[i].status = "sent" =>
                        /\ last'.cmd = "send"
                        /\ ~data_assignments[i].email_sent
                        /\ data_assignments'[i].email_sent
                  /\ (data_assignments[i].email_sent /\ last'.cmd = "send") =>
                        last'.results[i].status = "already_sent" ]_vars
    /\ [][ last'.cmd # "assign" =>
              /\ DOMAIN data_assignments' = DOMAIN data_assignments
              /\ \A i \in DOMAIN data_assignments :
                    /\ data_assignments[i].email_sent => data_assignments'[i].email_sent
                    /\ [data_assignments'[i] EXCEPT !.email_sent = FALSE]
                          = [data_assignments[i] EXCEPT !.email_sent = FALSE] ]_vars

\* A send skipped the assignment that an earlier send had transmitted and transmitted
\* the one that had failed then.
C26_Witness ==
    /\ last.cmd = "send"
    /\ last.over_sent
    /\ Len(last.results) = 2
    /\ last.results[1].status = "already_sent"
    /\ last.results[2].status = "sent"
    /\ \A i \in DOMAIN data_assignments : data_assignments[i].email_sent

\* C27: send --dry-run changes nothing that is stored and transmits nothing: whatever
\* the email_sent flags are and whatever is configured, the step of the command leaves
\* the assignments with their flags, the participants, the clusters and the config as
\* they were, and no result of it has the status sent; with the configuration complete
\* every result is would_send, a sent assignment included.
C27_DryRunChangesNothing ==
    [][ Send(TRUE) =>
          /\ data_assignments' = data_assignments
          /\ participants' = participants
          /\ clusters' = clusters
          /\ config' = config
          /\ \A i \in DOMAIN last'.results :
                /\ last'.results[i].status \in {"would_send", "error"}
                /\ last'.results[i].status = "would_send"
                      <=> (config.brevo_api_key /\ config.sender_email) ]_vars

\* A dry run over a configured store listed both assignments of a batch, of which one
\* had been sent, and left the flags as they were.
C27_Witness ==
    /\ last.cmd = "send --dry-run"
    /\ last.over_sent
    /\ Len(last.results) = 2
    /\ \A i \in DOMAIN last.results : last.results[i].status = "would_send"
    /\ \E i \in DOMAIN data_assignments : data_assignments[i].email_sent
    /\ \E i \in DOMAIN data_assignments : ~data_assignments[i].email_sent

\* C27: a dry run without an API key ends with an error result per assignment.
C27_Unconfigured ==
    /\ last.cmd = "send --dry-run"
    /\ ~config.brevo_api_key
    /\ Len(last.results) = 2
    /\ \A i \in DOMAIN last.results : last.results[i].status = "error"
    /\ \A i \in DOMAIN data_assignments : ~data_assignments[i].email_sent

\* C28: send_all_assignments returns one result per assignment, in the order of the
\* assignments, whatever fails; a send without --dry-run attempts every assignment
\* that is not marked, also after an error, with the result sent or error; and after
\* the command an assignment is marked iff it was marked before or its own result is
\* sent, so an assignment with the result error stays unmarked for the next send.
C28_OneResultEach ==
    [][ SendRan =>
          /\ Len(last'.results) = Len(data_assignments)
          /\ \A i \in DOMAIN data_assignments :
                /\ last'.results[i].to = data_assignments[i].giver_email
                /\ last'.results[i].giver = data_assignments[i].giver_name
                /\ last'.results[i].status
                      \in {"sent", "would_send", "already_sent", "error"}
                /\ data_assignments'[i].email_sent
                      <=> \/ data_assignments[i].email_sent
                          \/ last'.cmd = "send" /\ last'.results[i].status = "sent"
                /\ (last'.cmd = "send" /\ ~data_assignments[i].email_sent) =>
                      last'.results[i].status \in {"sent", "error"}
                /\ (last'.cmd = "send" /\ last'.results[i].status = "error") =>
                      /\ ~data_assignments[i].email_sent
                      /\ ~data_assignments'[i].email_sent ]_vars

\* The Brevo call failed for the first assignment and succeeded for the second: the
\* first is left unmarked, the second is marked.
C28_Witness ==
    /\ last.cmd = "send"
    /\ ~last.over_sent
    /\ Len(last.results) = 2
    /\ last.results[1].status = "error"
    /\ last.results[2].status = "sent"
    /\ ~data_assignments[1].email_sent
    /\ data_assignments[2].email_sent

\* C28: the assignment that failed in an earlier send is sent by the next one.
C28_TriedAgain ==
    /\ last.cmd = "send"
    /\ last.over_sent
    /\ Len(last.results) = 2
    /\ last.results[1].status = "sent"
    /\ last.results[2].status = "already_sent"

\* C28: a send with a key and without a sender ends with an error for every
\* assignment of a batch of three.
C28_AllFailed ==
    /\ last.cmd = "send"
    /\ Len(last.results) = 3
    /\ \A i \in DOMAIN last.results : last.results[i].status = "error"
    /\ ~config.sender_email

\* The pairings of a stored batch: its assignments without their email_sent flags.
Unmarked(batch) == [i \in DOMAIN batch |-> [batch[i] EXCEPT !.email_sent = FALSE]]

\* C29: over a stored batch, assign without --force ends at the question for --force:
\* the matcher is not run (the command ends in none of its outcomes, whatever the
\* roster is) and the assignments and their flags stay as they were.  Among the
\* commands assign, send and config, the pairings of the stored batch change in no
\* step but a successful assign that was forced or started on a store without
\* assignments.
C29_AssignNeedsForce ==
    /\ [][ \A sep \in BOOLEAN :
              (Assign(FALSE, sep) /\ data_assignments # <<>>) =>
                  /\ last'.cmd = "assign"
                  /\ last'.outcome = "exists"
                  /\ last'.outcome \notin Outcomes
                  /\ data_assignments' = data_assignments ]_vars
    /\ [][ Unmarked(data_assignments') # Unmarked(data_assignments) =>
              /\ last'.cmd = "assign"
              /\ last'.outcome = "ok"
              /\ \/ data_assignments = <<>>
                 \/ \E sep \in BOOLEAN : Assign(TRUE, sep) ]_vars

\* assign without --force left a partly sent batch alone, on a roster on which the
\* matcher would have failed.
C29_Witness ==
    /\ last.cmd = "assign"
    /\ last.outcome = "exists"
    /\ Len(participants) = 1
    /\ \E i \in DOMAIN data_assignments : data_assignments[i].email_sent
    /\ \E i \in DOMAIN data_assignments : ~data_assignments[i].email_sent

\* C29: assign on a store without assignments stored a batch without --force needed.
C29_FirstAssign ==
    /\ last.cmd = "assign"
    /\ last.outcome = "ok"
    /\ ~last.over_sent
    /\ Len(data_assignments) = 2
    /\ Len(participants) = 2

\* C30 as stated: after any sequence of add, remove, cluster, assign and send commands
\* the giver_id and the receiver_id of every stored assignment are ids of participants
\* of the roster.
C30_Original ==
    \A i \in DOMAIN data_assignments :
        /\ data_assignments[i].giver_id \in Ids
        /\ data_assignments[i].receiver_id \in Ids

\* C30, the consequence: a send transmitted the email of an assignment whose receiver
\* had been removed from the roster after the batch was stored.
C30_SentAboutRemoved ==
    /\ last.cmd = "send"
    /\ \E i \in DOMAIN last.results :
          /\ last.results[i].status = "sent"
          /\ data_assignments[i].giver_id \in Ids
          /\ data_assignments[i].receiver_id \notin Ids

====
